---- MODULE Spec2Model ----
(***************************************************************************)
(* stm32-flash-corruptor: the flash driver (src/src/flash.rs), the         *)
(* watchdog and LED helpers (src/src/hw.rs) and the cross-reset experiment *)
(* controller with its fault and panic handlers (src/src/main.rs).         *)
(*                                                                         *)
(* 32-bit values that do not fit a TLC integer (the magic value, the flash *)
(* unlock keys) are written as pairs <<high 16 bits, low 16 bits>>; a      *)
(* 64-bit word is a pair <<high 32 bits, low 32 bits>>.                    *)
(***************************************************************************)
EXTENDS Integers, Sequences, FiniteSets, TLC

(* ------------------------------ bounds -------------------------------- *)

\* Polls of the busy bit made by wait(); stands for the literal 100_000.
WaitPolls == 2

\* Boots (resets) followed in one run of the controller.
MaxBoots == 2

\* Watchdog reload value in watchdog ticks; stands for RLR = 0xFFF.
WdgReload == 2

\* Longest hardware latency, in status-register reads: long enough for a
\* wait() to time out.
MaxBusy == WaitPolls + 2

(* --------------------------- program constants ------------------------ *)

APPROXIMATE_ADDRESS_TO_CORRUPT == 8192
CORRUPT_RANGE == 8
STATE_BEFORE_WRITE == 1
STATE_AFTER_WRITE == 2
MAGIC_VALUE == <<39321, 39321>>
FLASH_KEY1 == <<17767, 291>>
FLASH_KEY2 == <<52719, 35243>>
DUAL_BANK_PAGE_SIZE == 4096
SINGLE_BANK_PAGE_SIZE == 8192
DUAL_BANK_PAGES == 512
SINGLE_BANK_PAGES == 256
PAGES_PER_BANK == 256
BOUND_LO_DEFAULT == 100
BOUND_HI_DEFAULT == 1000000
MIN_INTERVAL == 5
KEY_START == 52428
KEY_ENABLE == 21845
KEY_RESET == 43690
KEY_MIN == 1

\* enum Error, with Ok for Result::Ok(())
Error == {"UnlockFailed", "Busy", "Illegal", "InvalidPage"}

\* The sticky programming-error flags of FLASH_SR cleared by
\* clear_programming_flags.
ErrFlags == {"progerr", "sizerr", "pgaerr", "pgserr", "wrperr", "miserr", "fasterr"}

\* The flags Flash::status looks at.
StatusFlags == {"pgaerr", "progerr", "wrperr"}

(* ------------------------------- state -------------------------------- *)

VARIABLES
    pc,       \* position of the CPU: a statement of main, a handler loop, or "driver"
    bkpr,     \* RTC backup registers 0..4 (survive reset)
    loc,      \* locals of main: bottom, top, middle, state, page_number
    led,      \* the three LEDs
    wdg,      \* independent watchdog: running?, counter in ticks
    stepped,  \* the CPU has executed something since the last watchdog tick
    eccr,     \* FLASH_ECCR as latched by the hardware: eccd, eccd2, addr_ecc
    flash,    \* flash controller registers FLASH_CR / FLASH_SR
    dbank,    \* option bit 22 (DBANK) of FLASH_OPTR
    cap,      \* a FlashUnlocked value is alive
    last,     \* the last driver call: op, arg, result, register writes made
    boots,    \* resets taken so far in this run
    start,    \* backup registers as they were when this boot began
    calls,    \* driver calls made in this boot
    prev      \* the previous boot's program call returned Ok

vars == <<pc, bkpr, loc, led, wdg, stepped, eccr, flash, dbank, cap, last,
          boots, start, calls, prev>>

(* --------------------------- flash hardware --------------------------- *)

\* Reset value of the flash controller: locked, idle, no flags.
FlashReset ==
    [lock |-> TRUE, per |-> FALSE, pg |-> FALSE, pnb |-> 0, bker |-> FALSE,
     busy |-> 0, errs |-> {}, eop |-> FALSE]

\* One entry of the register-write log of a driver call.
W(reg, what, addr, val) == [reg |-> reg, what |-> what, addr |-> addr, val |-> val]

\* What the hardware may do with one erase or one programmed word: finish
\* after lat status reads (possibly raising EOP), or raise one error flag.
HwOutcomes ==
    {[lat |-> l, raise |-> {}, eop |-> FALSE] : l \in 0..MaxBusy}
    \cup {[lat |-> 0, raise |-> {}, eop |-> TRUE]}
    \cup {[lat |-> 0, raise |-> {x}, eop |-> FALSE] : x \in ErrFlags}

\* The outcomes followed in runs of the controller: done at once, done at
\* once with EOP raised, never done within a wait, an error flag that
\* Flash::status reads, an error flag that it does not read.
CtlHwOutcomes ==
    {hw \in HwOutcomes :
        /\ hw.lat \in {0, MaxBusy}
        /\ hw.raise \in {{}, {"progerr"}, {"pgserr"}}}

\* The hardware starts an operation (erase, or programming of one word).
HwStart(f, hw) ==
    [f EXCEPT !.busy = hw.lat, !.errs = f.errs \cup hw.raise, !.eop = hw.eop]

\* One read of FLASH_SR: time passes, the operation in flight gets nearer
\* to its end.
SrRead(f) == [f EXCEPT !.busy = IF f.busy > 0 THEN f.busy - 1 ELSE 0]

\* The key sequence the controller expects in FLASH_KEYR: 0x45670123, then
\* 0xCDEF89AB.
HwKeysAccepted(k1, k2) == k1 = <<17767, 291>> /\ k2 = <<52719, 35243>>

\* A write to FLASH_CR stalls the bus until BSY is clear.
CrStall(f) == [f EXCEPT !.busy = 0]

(* ---------------------------- flash driver ---------------------------- *)

is_dualbank(db) == db

\* The page sizes of the two bank modes exchanged.
page_size_Swapped(db) ==
    IF is_dualbank(db) THEN SINGLE_BANK_PAGE_SIZE ELSE DUAL_BANK_PAGE_SIZE

\* flash.rs:80-86: 0x1000 in dual-bank mode, 0x2000 in single-bank mode
page_size(db) == IF is_dualbank(db) THEN DUAL_BANK_PAGE_SIZE ELSE SINGLE_BANK_PAGE_SIZE

\* The division rounding up.
address_to_page_number_RoundsUp(db, address) ==
    (address + page_size(db) - 1) \div page_size(db)

\* flash.rs:130-132: address / self.page_size()
address_to_page_number(db, address) == address \div page_size(db)

\* Flash::status: one read of SR, then Busy / Illegal / Ok.
status(f) ==
    [f   |-> SrRead(f),
     res |-> IF f.busy > 0 THEN "Busy"
             ELSE IF f.errs \cap StatusFlags # {} THEN "Illegal"
             ELSE "Ok"]

\* The polling loop of wait(): at most n reads, leaving at the first that
\* sees BSY clear.
RECURSIVE WaitLoop(_, _)
WaitLoop(f, n) ==
    IF n = 0 THEN f
    ELSE IF f.busy = 0 THEN SrRead(f)
    ELSE WaitLoop(SrRead(f), n - 1)

wait(f) == status(WaitLoop(f, WaitPolls))

\* Flash::unlock: the two key writes; the hardware clears LOCK when it has
\* seen the sequence (hwok: the hardware accepted it).
unlock(f, hwok) ==
    LET k1 == FLASH_KEY1
        k2 == FLASH_KEY2
        f2 == IF HwKeysAccepted(k1, k2) /\ hwok
              THEN [f EXCEPT !.lock = FALSE] ELSE f
    IN [f   |-> f2,
        res |-> IF f2.lock THEN "UnlockFailed" ELSE "Ok",
        log |-> <<W("KEYR", "key1", 0, k1[2]), W("KEYR", "key2", 0, k2[2])>>]

\* Drop for FlashUnlocked: cr.modify(|_, w| w.lock().clear_bit())
drop(f) ==
    [f   |-> [CrStall(f) EXCEPT !.lock = FALSE],
     res |-> "Ok",
     log |-> <<W("CR", "lock=0", 0, 0)>>]

clear_programming_flags(f) == [f EXCEPT !.errs = f.errs \ ErrFlags]

\* The range check with > for >=.
page_out_of_range_OffByOne(db, page_number) ==
    page_number > (IF db THEN DUAL_BANK_PAGES ELSE SINGLE_BANK_PAGES)

\* flash.rs:170 and 197: page_number >= 512 (dual bank), >= 256 (single)
page_out_of_range(db, page_number) ==
    page_number >= (IF is_dualbank(db) THEN DUAL_BANK_PAGES ELSE SINGLE_BANK_PAGES)

\* erase_page returning the error of the completion wait at once, as
\* write_dwords does, with PER still set.
erase_page_EarlyReturn(f, db, page_number, hw) ==
    LET w1 == wait(f)
        f2 == clear_programming_flags(w1.f)
        l2 == <<W("SR", "clear_flags", 0, 0)>>
        f3 == [CrStall(f2) EXCEPT !.per = TRUE,
                                 !.bker = (db /\ page_number \div 256 = 1),
                                 !.pnb = page_number % 256]
        l3 == Append(l2, W("CR", "per=1,bker,pnb", IF f3.bker THEN 1 ELSE 0, f3.pnb))
        f4 == HwStart(CrStall(f3), hw)
        l4 == Append(l3, W("CR", "start=1", 0, 0))
        w5 == wait(f4)
    IN IF w1.res # "Ok" THEN [f |-> w1.f, res |-> w1.res, log |-> <<>>]
       ELSE IF page_out_of_range(db, page_number)
            THEN [f |-> f2, res |-> "InvalidPage", log |-> l2]
       ELSE IF w5.res # "Ok" THEN [f |-> w5.f, res |-> w5.res, log |-> l4]
       ELSE [f   |-> [CrStall(w5.f) EXCEPT !.per = FALSE],
             res |-> "Ok",
             log |-> Append(l4, W("CR", "per=0", 0, 0))]

\* FlashUnlocked::erase_page
erase_page(f, db, page_number, hw) ==
    LET w1 == wait(f)
        f2 == clear_programming_flags(w1.f)
        l2 == <<W("SR", "clear_flags", 0, 0)>>
        bank == page_number \div PAGES_PER_BANK
        f3 == IF is_dualbank(db)
              THEN [CrStall(f2) EXCEPT !.per = TRUE, !.bker = (bank = 1),
                                       !.pnb = page_number % PAGES_PER_BANK]
              ELSE [CrStall(f2) EXCEPT !.per = TRUE, !.bker = FALSE,
                                       !.pnb = page_number % 256]
        l3 == Append(l2, W("CR", "per=1,bker,pnb", IF f3.bker THEN 1 ELSE 0, f3.pnb))
        f4 == HwStart(CrStall(f3), hw)
        l4 == Append(l3, W("CR", "start=1", 0, 0))
        w5 == wait(f4)
        f6 == [CrStall(w5.f) EXCEPT !.per = FALSE]
        l6 == Append(l4, W("CR", "per=0", 0, 0))
    IN IF w1.res # "Ok" THEN [f |-> w1.f, res |-> w1.res, log |-> <<>>]
       ELSE IF page_out_of_range(db, page_number) THEN [f |-> f2, res |-> "InvalidPage", log |-> l2]
       ELSE [f |-> f6, res |-> w5.res, log |-> l6]

\* The loop writing every word and waiting once, after the last.
RECURSIVE WriteLoop_WaitsAtEnd(_, _, _, _, _, _)
WriteLoop_WaitsAtEnd(f, address, array, hws, k, log) ==
    IF k > Len(array)
    THEN LET w == wait(f)
         IN [f |-> w.f, res |-> w.res, log |-> log, done |-> w.res = "Ok"]
    ELSE WriteLoop_WaitsAtEnd(HwStart(f, hws[k]), address + 8, array, hws, k + 1,
                              log \o <<W("MEM", "lo", address, array[k][2]),
                                       W("MEM", "hi", address + 4, array[k][1])>>)

\* The loop of write_dwords over array[k..]: two 32-bit writes per word,
\* wait, clear EOP; an error of wait returns at once.
RECURSIVE WriteLoop(_, _, _, _, _, _)
WriteLoop(f, address, array, hws, k, log) ==
    IF k > Len(array) THEN [f |-> f, res |-> "Ok", log |-> log, done |-> TRUE]
    ELSE LET l1 == log \o <<W("MEM", "lo", address, array[k][2]),
                            W("MEM", "hi", address + 4, array[k][1])>>
             f1 == HwStart(f, hws[k])
             w  == wait(f1)
             f2 == IF w.f.eop THEN [w.f EXCEPT !.eop = FALSE] ELSE w.f
             l2 == IF w.f.eop THEN Append(l1, W("SR", "eop=0", 0, 0)) ELSE l1
         IN IF w.res # "Ok"
            THEN [f |-> w.f, res |-> w.res, log |-> l1, done |-> FALSE]
            ELSE WriteLoop(f2, address + 8, array, hws, k + 1, l2)

\* FlashUnlocked::write_dwords
write_dwords(f, address, array, hws) ==
    LET w1 == wait(f)
        f2 == clear_programming_flags(w1.f)
        f3 == [CrStall(f2) EXCEPT !.pg = TRUE]
        l3 == <<W("SR", "clear_flags", 0, 0), W("CR", "pg=1", 0, 0)>>
        r  == WriteLoop(f3, address, array, hws, 1, l3)
    IN IF w1.res # "Ok" THEN [f |-> w1.f, res |-> w1.res, log |-> <<>>]
       ELSE IF ~r.done THEN [f |-> r.f, res |-> r.res, log |-> r.log]
       ELSE [f   |-> [CrStall(r.f) EXCEPT !.pg = FALSE],
             res |-> "Ok",
             log |-> Append(r.log, W("CR", "pg=0", 0, 0))]

(* ---------------------------- driver harness -------------------------- *)

\* Page numbers and word arrays the harness hands to the driver.
HarnessPages == {0, 1, 255, 256, 257, 511, 512, 513}

HarnessArrays == {<<>>, <<<<1, 2>>>>, <<<<1, 2>>, <<0, 0>>>>}

NoCall == [op |-> "none", arg |-> 0, res |-> "Ok", log |-> <<>>]

Call(op, arg, r) == [op |-> op, arg |-> arg, res |-> r.res, log |-> r.log]

PowerOn == [i \in 0..4 |-> IF i = 0 THEN <<0, 0>> ELSE 0]

ZeroLoc == [bottom |-> 0, top |-> 0, middle |-> 0, state |-> 0, page_number |-> 0]

NoCalls == [armed |-> FALSE, unlock |-> 0, erase |-> 0, write |-> 0, write_ok |-> FALSE]

LedsAllOff == [green |-> FALSE, red |-> FALSE, blue |-> FALSE]

WdgOff == [on |-> FALSE, cnt |-> 0]

EccrReset == [eccd |-> FALSE, eccd2 |-> FALSE, addr |-> 0]

\* The harness: a locked, idle controller in either bank mode, no
\* capability alive.
InitDriver ==
    /\ pc = "driver"
    /\ flash = FlashReset
    /\ dbank \in BOOLEAN
    /\ cap = FALSE
    /\ last = NoCall
    /\ bkpr = PowerOn /\ loc = ZeroLoc /\ led = LedsAllOff /\ wdg = WdgOff
    /\ stepped = FALSE /\ eccr = EccrReset /\ boots = 0 /\ start = PowerOn
    /\ calls = NoCalls /\ prev = FALSE

DriverFrame == UNCHANGED <<pc, dbank, bkpr, loc, led, wdg, stepped, eccr, boots,
                           start, calls, prev>>

DUnlock ==
    /\ pc = "driver" /\ ~cap
    /\ \E hwok \in BOOLEAN :
         LET r == unlock(flash, hwok)
         IN /\ flash' = r.f
            /\ cap' = (r.res = "Ok")
            /\ last' = Call("unlock", 0, r)
    /\ DriverFrame

DClearFlags ==
    /\ pc = "driver" /\ cap
    /\ flash' = clear_programming_flags(flash)
    /\ last' = [op |-> "clear_programming_flags", arg |-> 0, res |-> "Ok",
                log |-> <<W("SR", "clear_flags", 0, 0)>>]
    /\ UNCHANGED cap
    /\ DriverFrame

DErasePage ==
    /\ pc = "driver" /\ cap
    /\ \E p \in HarnessPages, hw \in HwOutcomes :
         LET r == erase_page(flash, dbank, p, hw)
         IN /\ flash' = r.f
            /\ last' = Call("erase_page", p, r)
    /\ UNCHANGED cap
    /\ DriverFrame

DWriteDwords ==
    /\ pc = "driver" /\ cap
    /\ \E a \in HarnessArrays :
         \E hws \in [1..Len(a) -> HwOutcomes] :
           LET r == write_dwords(flash, APPROXIMATE_ADDRESS_TO_CORRUPT, a, hws)
           IN /\ flash' = r.f
              /\ last' = Call("write_dwords", Len(a), r)
    /\ UNCHANGED cap
    /\ DriverFrame

\* Addresses the harness asks the page number of: the first, second and
\* last byte of pages at the edges of the banks, in either page size.
HarnessAddresses ==
    {p * s + o : p \in {0, 1, 255, 256, 511}, s \in {4096, 8192}, o \in {0, 1, 4095}}

\* Flash::address_to_page_number, callable while no FlashUnlocked borrows
\* the Flash; the result recorded is the page number returned.
DPageNumber ==
    /\ pc = "driver" /\ ~cap
    /\ \E a \in HarnessAddresses :
         last' = [op |-> "address_to_page_number", arg |-> a,
                  res |-> address_to_page_number(dbank, a), log |-> <<>>]
    /\ UNCHANGED <<flash, cap>>
    /\ DriverFrame

DWait ==
    /\ pc = "driver" /\ cap
    /\ LET r == wait(flash)
       IN /\ flash' = r.f
          /\ last' = [op |-> "wait", arg |-> 0, res |-> r.res, log |-> <<>>]
    /\ UNCHANGED cap
    /\ DriverFrame

DDrop ==
    /\ pc = "driver" /\ cap
    /\ LET r == drop(flash)
       IN /\ flash' = r.f
          /\ last' = Call("drop", 0, r)
    /\ cap' = FALSE
    /\ DriverFrame

NextDriver ==
    \/ DUnlock \/ DClearFlags \/ DErasePage \/ DWriteDwords \/ DWait \/ DDrop
    \/ DPageNumber

SpecDriver == InitDriver /\ [][NextDriver]_vars

(* ------------------------------ watchdog ------------------------------ *)

\* A write of key to IWDG_KR: 0xCCCC starts the watchdog, 0xAAAA reloads
\* its counter, any other value leaves the counter alone.
IwdgKr(w, key) ==
    IF key = KEY_START THEN [on |-> TRUE, cnt |-> WdgReload]
    ELSE IF key = KEY_RESET /\ w.on THEN [w EXCEPT !.cnt = WdgReload]
    ELSE w

\* hw::activate_watchdog: start, enable, (prescaler, reload), reset.
activate_watchdog(w) == IwdgKr(IwdgKr(IwdgKr(w, KEY_START), KEY_ENABLE), KEY_RESET)

\* hw::watchdog_feed_min: kr.write(key = 1)
watchdog_feed_min(w) == IwdgKr(w, KEY_MIN)

\* watchdog_feed writing the key of watchdog_feed_min.
watchdog_feed_WrongKey(w) == IwdgKr(w, KEY_MIN)

\* hw::watchdog_feed: kr.write(key = reset)
watchdog_feed(w) == IwdgKr(w, KEY_RESET)

(* ---------------------------- the controller -------------------------- *)

\* The middle without the halving.
Middle_NoHalving(bottom, top) == bottom + top

\* middle = (bottom + top) / 2
Middle(bottom, top) == (bottom + top) \div 2

\* The assertion with a threshold one too small.
very_similar_OffByOne(bottom, top) == top - bottom < MIN_INTERVAL - 1

\* very_similar = top - bottom < 5, for top >= bottom
very_similar(bottom, top) == top - bottom < MIN_INTERVAL

\* The bound update with the two branches exchanged.
NewBounds_Swapped(bottom, top, state) ==
    IF state = STATE_BEFORE_WRITE THEN <<(bottom + top) \div 2, top>>
    ELSE IF state = STATE_AFTER_WRITE THEN <<bottom, (bottom + top) \div 2>>
    ELSE <<bottom, top>>

\* The bound update taking every phase but after-write for before-write.
NewBounds_NarrowAlways(bottom, top, state) ==
    IF state = STATE_AFTER_WRITE THEN <<(bottom + top) \div 2, top>>
    ELSE <<bottom, (bottom + top) \div 2>>

\* The bound update of main: the new (bottom, top) for the phase read.
NewBounds(bottom, top, state) ==
    IF state = STATE_BEFORE_WRITE THEN <<bottom, Middle(bottom, top)>>
    ELSE IF state = STATE_AFTER_WRITE THEN <<Middle(bottom, top), top>>
    ELSE <<bottom, top>>

\* The upper bound after n boots that each found phase = before-write.
RECURSIVE TopAfter(_, _, _)
TopAfter(bottom, top, n) ==
    IF n = 0 THEN top
    ELSE TopAfter(bottom, NewBounds(bottom, top, STATE_BEFORE_WRITE)[2], n - 1)

\* Boots already behind the program in a run that starts late in the search.
LateBoots == {17, 18}

\* The backup registers after k boots of which every one was reset before
\* the program call returned, except that the last left phase ph.
LateSearch(k, ph) ==
    [i \in 0..4 |->
        CASE i = 0 -> MAGIC_VALUE
          [] i = 1 -> BOUND_LO_DEFAULT
          [] i = 2 -> TopAfter(BOUND_LO_DEFAULT, BOUND_HI_DEFAULT, k - 1)
          [] i = 3 -> ph
          [] i = 4 -> k]

\* Values the hardware may latch in FLASH_ECCR when an exception is taken.
EccValues ==
    [eccd : BOOLEAN, eccd2 : BOOLEAN,
     addr : {APPROXIMATE_ADDRESS_TO_CORRUPT - 1, APPROXIMATE_ADDRESS_TO_CORRUPT,
             APPROXIMATE_ADDRESS_TO_CORRUPT + CORRUPT_RANGE - 1,
             APPROXIMATE_ADDRESS_TO_CORRUPT + CORRUPT_RANGE}]

\* Statements of main, in which an exception can be taken.
MainPcs == {"boot", "init0", "init1", "init2", "init3", "count", "read_bounds",
            "update", "set_phase", "leds", "probe", "arm", "unlock", "erase",
            "feed_min", "delay", "write", "after", "blue", "wait_reset"}

\* State after power-on or after a reset, at the entry of main.
Init ==
    /\ pc = "boot"
    /\ bkpr \in {PowerOn}
          \cup {LateSearch(k, ph) : k \in LateBoots,
                                    ph \in {STATE_BEFORE_WRITE, STATE_AFTER_WRITE}}
    /\ start = bkpr
    /\ loc = ZeroLoc /\ led = LedsAllOff /\ wdg = WdgOff /\ stepped = FALSE
    /\ eccr = EccrReset /\ flash = FlashReset /\ dbank \in BOOLEAN
    /\ cap = FALSE /\ last = NoCall /\ boots = 0
    /\ calls = NoCalls /\ prev = FALSE

\* A CPU step to statement next.
Goto(next) == pc' = next /\ stepped' = TRUE

FlashFrame == UNCHANGED <<flash, dbank, cap, last>>

\* The cold-boot initialisation run on every boot.
Boot_AlwaysInit ==
    /\ pc = "boot"
    /\ Goto("init0")
    /\ UNCHANGED <<bkpr, loc, led, wdg, eccr, boots, start, calls, prev>>
    /\ FlashFrame

\* main.rs:104-110: enable the backup registers, read slot 0, compare.
Boot ==
    /\ pc = "boot"
    /\ Goto(IF bkpr[0] # MAGIC_VALUE THEN "init0" ELSE "count")
    /\ UNCHANGED <<bkpr, loc, led, wdg, eccr, boots, start, calls, prev>>
    /\ FlashFrame

\* main.rs:112
InitMagic ==
    /\ pc = "init0"
    /\ bkpr' = [bkpr EXCEPT ![0] = MAGIC_VALUE]
    /\ Goto("init1")
    /\ UNCHANGED <<loc, led, wdg, eccr, boots, start, calls, prev>>
    /\ FlashFrame

\* main.rs:115
InitBottom ==
    /\ pc = "init1"
    /\ bkpr' = [bkpr EXCEPT ![1] = BOUND_LO_DEFAULT]
    /\ Goto("init2")
    /\ UNCHANGED <<loc, led, wdg, eccr, boots, start, calls, prev>>
    /\ FlashFrame

\* main.rs:117
InitTop ==
    /\ pc = "init2"
    /\ bkpr' = [bkpr EXCEPT ![2] = BOUND_HI_DEFAULT]
    /\ Goto("init3")
    /\ UNCHANGED <<loc, led, wdg, eccr, boots, start, calls, prev>>
    /\ FlashFrame

\* main.rs:118
InitState ==
    /\ pc = "init3"
    /\ bkpr' = [bkpr EXCEPT ![3] = 0]
    /\ Goto("count")
    /\ UNCHANGED <<loc, led, wdg, eccr, boots, start, calls, prev>>
    /\ FlashFrame

\* main.rs:122: the reset counter
Count ==
    /\ pc = "count"
    /\ bkpr' = [bkpr EXCEPT ![4] = bkpr[4] + 1]
    /\ Goto("read_bounds")
    /\ UNCHANGED <<loc, led, wdg, eccr, boots, start, calls, prev>>
    /\ FlashFrame

\* main.rs:124-132: read the bounds, assert they are not very similar, read
\* the phase. With top < bottom the subtraction overflows: a build with
\* overflow checks panics, a build without wraps to a value far above 5.
ReadBounds ==
    /\ pc = "read_bounds"
    /\ LET bottom == bkpr[1]
           top    == bkpr[2]
       IN /\ loc' = [loc EXCEPT !.bottom = bottom, !.top = top,
                                !.middle = Middle(bottom, top), !.state = bkpr[3]]
          /\ IF top < bottom THEN \E next \in {"panic", "update"} : Goto(next)
             ELSE IF very_similar(bottom, top) THEN Goto("panic")
             ELSE Goto("update")
    /\ UNCHANGED <<bkpr, led, wdg, eccr, boots, start, calls, prev>>
    /\ FlashFrame

\* main.rs:134-143: narrow the interval by the phase the last boot left.
Update ==
    /\ pc = "update"
    /\ LET nb == NewBounds(loc.bottom, loc.top, loc.state)
       IN /\ loc' = [loc EXCEPT !.bottom = nb[1], !.top = nb[2],
                                !.middle = Middle(nb[1], nb[2])]
          /\ bkpr' = IF loc.state = STATE_BEFORE_WRITE THEN [bkpr EXCEPT ![2] = nb[2]]
                     ELSE IF loc.state = STATE_AFTER_WRITE THEN [bkpr EXCEPT ![1] = nb[1]]
                     ELSE bkpr
    /\ Goto("set_phase")
    /\ UNCHANGED <<led, wdg, eccr, boots, start, calls, prev>>
    /\ FlashFrame

\* The phase marker written with the wrong constant.
SetPhase_AfterWrite ==
    /\ pc = "set_phase"
    /\ bkpr' = [bkpr EXCEPT ![3] = STATE_AFTER_WRITE]
    /\ Goto("leds")
    /\ UNCHANGED <<loc, led, wdg, eccr, boots, start, calls, prev>>
    /\ FlashFrame

\* main.rs:145
SetPhase ==
    /\ pc = "set_phase"
    /\ bkpr' = [bkpr EXCEPT ![3] = STATE_BEFORE_WRITE]
    /\ Goto("leds")
    /\ UNCHANGED <<loc, led, wdg, eccr, boots, start, calls, prev>>
    /\ FlashFrame

\* The watchdog armed ahead of the probe.
LedsOff_ArmsFirst ==
    /\ pc = "leds"
    /\ led' = LedsAllOff
    /\ wdg' = activate_watchdog(wdg)
    /\ calls' = [calls EXCEPT !.armed = TRUE]
    /\ Goto("probe")
    /\ UNCHANGED <<bkpr, loc, eccr, boots, start, prev>>
    /\ FlashFrame

\* main.rs:150-152
LedsOff ==
    /\ pc = "leds"
    /\ led' = LedsAllOff
    /\ Goto("probe")
    /\ UNCHANGED <<bkpr, loc, wdg, eccr, boots, start, calls, prev>>
    /\ FlashFrame

\* main.rs:156-166: the probe reads raised no exception; page number.
Probe ==
    /\ pc = "probe"
    /\ loc' = [loc EXCEPT !.page_number =
                  address_to_page_number(dbank, APPROXIMATE_ADDRESS_TO_CORRUPT)]
    /\ Goto("arm")
    /\ UNCHANGED <<bkpr, led, wdg, eccr, boots, start, calls, prev>>
    /\ FlashFrame

\* main.rs:169: activate_watchdog(..).unwrap()
Arm ==
    /\ pc = "arm"
    /\ wdg' = activate_watchdog(wdg)
    /\ calls' = [calls EXCEPT !.armed = TRUE]
    /\ \E ok \in BOOLEAN : Goto(IF ok THEN "unlock" ELSE "panic")
    /\ UNCHANGED <<bkpr, loc, led, eccr, boots, start, prev>>
    /\ FlashFrame

\* main.rs:172: flash.unlock().unwrap()
Unlock ==
    /\ pc = "unlock"
    /\ \E hwok \in BOOLEAN :
         LET r == unlock(flash, hwok)
         IN /\ flash' = r.f
            /\ cap' = (r.res = "Ok")
            /\ last' = Call("unlock", 0, r)
            /\ Goto(IF r.res = "Ok" THEN "erase" ELSE "panic")
    /\ calls' = [calls EXCEPT !.unlock = @ + 1]
    /\ UNCHANGED <<bkpr, loc, led, wdg, eccr, boots, start, prev, dbank>>

\* main.rs:173: flash_unlocked.erase_page(page_number).unwrap()
Erase ==
    /\ pc = "erase"
    /\ \E hw \in CtlHwOutcomes :
         LET r == erase_page(flash, dbank, loc.page_number, hw)
         IN /\ flash' = r.f
            /\ last' = Call("erase_page", loc.page_number, r)
            /\ Goto(IF r.res = "Ok" THEN "feed_min" ELSE "panic")
    /\ calls' = [calls EXCEPT !.erase = @ + 1]
    /\ UNCHANGED <<bkpr, loc, led, wdg, eccr, boots, start, prev, dbank, cap>>

\* main.rs:176
FeedMin ==
    /\ pc = "feed_min"
    /\ wdg' = watchdog_feed_min(wdg)
    /\ Goto("delay")
    /\ UNCHANGED <<bkpr, loc, led, eccr, boots, start, calls, prev>>
    /\ FlashFrame

\* main.rs:180-182: the delay loop; an iteration, or its end.
Delay ==
    /\ pc = "delay"
    /\ \E next \in {"delay", "write"} : Goto(next)
    /\ UNCHANGED <<bkpr, loc, led, wdg, eccr, boots, start, calls, prev>>
    /\ FlashFrame

\* The array main programs: [0u64; CORRUPT_RANGE / 8 + 1]
WriteArray == [k \in 1..(CORRUPT_RANGE \div 8 + 1) |-> <<0, 0>>]

\* main.rs:185-191: flash_unlocked.write_dwords(..).unwrap()
Write ==
    /\ pc = "write"
    /\ \E hws \in [1..Len(WriteArray) -> CtlHwOutcomes] :
         LET r == write_dwords(flash, APPROXIMATE_ADDRESS_TO_CORRUPT, WriteArray, hws)
         IN /\ flash' = r.f
            /\ last' = Call("write_dwords", Len(WriteArray), r)
            /\ calls' = [calls EXCEPT !.write = @ + 1, !.write_ok = (r.res = "Ok")]
            /\ Goto(IF r.res = "Ok" THEN "after" ELSE "panic")
    /\ UNCHANGED <<bkpr, loc, led, wdg, eccr, boots, start, prev, dbank, cap>>

\* main.rs:193
SetAfterWrite ==
    /\ pc = "after"
    /\ bkpr' = [bkpr EXCEPT ![3] = STATE_AFTER_WRITE]
    /\ Goto("blue")
    /\ UNCHANGED <<loc, led, wdg, eccr, boots, start, calls, prev>>
    /\ FlashFrame

\* main.rs:194
BlueOn ==
    /\ pc = "blue"
    /\ led' = [led EXCEPT !.blue = TRUE]
    /\ Goto("wait_reset")
    /\ UNCHANGED <<bkpr, loc, wdg, eccr, boots, start, calls, prev>>
    /\ FlashFrame

\* main.rs:196-198: loop {}
WaitForReset ==
    /\ pc = "wait_reset"
    /\ Goto("wait_reset")
    /\ UNCHANGED <<bkpr, loc, led, wdg, eccr, boots, start, calls, prev>>
    /\ FlashFrame

\* main.rs:24-30: red LED on, backup register 0 cleared.
panic_handler ==
    /\ pc = "panic"
    /\ led' = [led EXCEPT !.red = TRUE]
    /\ bkpr' = [bkpr EXCEPT ![0] = <<0, 0>>]
    /\ Goto("panic_loop")
    /\ UNCHANGED <<loc, wdg, eccr, boots, start, calls, prev>>
    /\ FlashFrame

\* main.rs:32-34: loop { watchdog_feed_min }
PanicLoop ==
    /\ pc = "panic_loop"
    /\ wdg' = watchdog_feed_min(wdg)
    /\ Goto("panic_loop")
    /\ UNCHANGED <<bkpr, loc, led, eccr, boots, start, calls, prev>>
    /\ FlashFrame

\* What FLASH_ECCR holds when an exception is taken at statement p: the
\* probe's reads of the target can trip any ECC report; elsewhere the
\* exception is a CPU fault with no ECC flag, or the ECC error aimed at.
FaultValues(p) ==
    IF p = "probe" THEN EccValues
    ELSE {EccrReset,
          [eccd |-> TRUE, eccd2 |-> FALSE, addr |-> APPROXIMATE_ADDRESS_TO_CORRUPT]}

\* HardFault / NonMaskableInt / DefaultHandler is taken at a statement of
\* main; the hardware has latched FLASH_ECCR.
Fault ==
    /\ pc \in MainPcs
    /\ \E e \in FaultValues(pc) : eccr' = e
    /\ Goto("handler")
    /\ UNCHANGED <<bkpr, loc, led, wdg, boots, start, calls, prev>>
    /\ FlashFrame

\* The single-bank mask applied in either bank mode.
is_flash_nmi_IgnoresMode(reg_content, db) == reg_content.eccd \/ reg_content.eccd2

\* main.rs:42-53: is this an ECC error, by the bank mode's bit layout
is_flash_nmi(reg_content, db) ==
    IF is_dualbank(db) THEN reg_content.eccd
    ELSE reg_content.eccd \/ reg_content.eccd2

\* main.rs:59-60: the faulting address lies in the target window
InWindow(dead_addr) ==
    /\ dead_addr >= APPROXIMATE_ADDRESS_TO_CORRUPT
    /\ dead_addr < APPROXIMATE_ADDRESS_TO_CORRUPT + CORRUPT_RANGE

\* main.rs:37-78: the body of every exception handler, up to its loop; the
\* success loop's first feed belongs to it.
bad_thing_happened ==
    /\ pc = "handler"
    /\ IF is_flash_nmi(eccr, dbank)
       THEN IF InWindow(eccr.addr)
            THEN /\ led' = [led EXCEPT !.green = TRUE]
                 /\ wdg' = watchdog_feed(wdg)
                 /\ Goto("success_loop")
            ELSE /\ led' = [led EXCEPT !.red = TRUE]
                 /\ UNCHANGED wdg
                 /\ Goto("inert_loop")
       ELSE /\ led' = [led EXCEPT !.red = TRUE, !.blue = TRUE]
            /\ UNCHANGED wdg
            /\ Goto("inert_loop")
    /\ UNCHANGED <<bkpr, loc, eccr, boots, start, calls, prev>>
    /\ FlashFrame

\* main.rs:65-67: loop { watchdog_feed }
SuccessLoop ==
    /\ pc = "success_loop"
    /\ wdg' = watchdog_feed(wdg)
    /\ Goto("success_loop")
    /\ UNCHANGED <<bkpr, loc, led, eccr, boots, start, calls, prev>>
    /\ FlashFrame

\* The inert loop feeding the watchdog, as the success loop does.
InertLoop_Feeds ==
    /\ pc = "inert_loop"
    /\ wdg' = watchdog_feed(wdg)
    /\ Goto("inert_loop")
    /\ UNCHANGED <<bkpr, loc, led, eccr, boots, start, calls, prev>>
    /\ FlashFrame

\* main.rs:76: loop {}
InertLoop ==
    /\ pc = "inert_loop"
    /\ Goto("inert_loop")
    /\ UNCHANGED <<bkpr, loc, led, wdg, eccr, boots, start, calls, prev>>
    /\ FlashFrame

\* One tick of the running watchdog; the CPU executes at least one
\* statement per tick.
Tick ==
    /\ pc # "driver"
    /\ wdg.on /\ wdg.cnt > 0 /\ stepped
    /\ wdg' = [wdg EXCEPT !.cnt = @ - 1]
    /\ stepped' = FALSE
    /\ UNCHANGED <<pc, bkpr, loc, led, eccr, boots, start, calls, prev>>
    /\ FlashFrame

\* A system reset: everything but the backup registers and the option bit
\* returns to its reset value, and main starts again.
Reset ==
    /\ boots < MaxBoots
    /\ pc' = "boot"
    /\ boots' = boots + 1
    /\ start' = bkpr
    /\ prev' = calls.write_ok
    /\ calls' = NoCalls
    /\ loc' = ZeroLoc /\ led' = LedsAllOff /\ wdg' = WdgOff /\ stepped' = FALSE
    /\ eccr' = EccrReset /\ flash' = FlashReset /\ cap' = FALSE /\ last' = NoCall
    /\ UNCHANGED <<bkpr, dbank>>

\* The watchdog counter has run out.
WatchdogReset ==
    /\ pc # "driver"
    /\ wdg.on /\ wdg.cnt = 0
    /\ Reset

\* A reset from outside (reset pin), at any point of a boot.
ExternalReset ==
    /\ pc # "driver"
    /\ Reset

Next ==
    \/ Boot \/ InitMagic \/ InitBottom \/ InitTop \/ InitState \/ Count
    \/ ReadBounds \/ Update \/ SetPhase \/ LedsOff \/ Probe \/ Arm \/ Unlock
    \/ Erase \/ FeedMin \/ Delay \/ Write \/ SetAfterWrite \/ BlueOn
    \/ WaitForReset \/ panic_handler \/ PanicLoop \/ Fault
    \/ bad_thing_happened \/ SuccessLoop \/ InertLoop \/ Tick \/ WatchdogReset

\* The program with the resets it causes itself (the watchdog).
Spec == Init /\ [][Next]_vars

NextAnyReset == Next \/ ExternalReset

\* The program when a reset may also come from outside at any point.
SpecAnyReset == Init /\ [][NextAnyReset]_vars

\* A step of the CPU in one of the handlers' final loops, or from the
\* entry of the panic handler to its loop: the CPU never halts, it keeps
\* executing the loop it has reached.
CpuLoop == panic_handler \/ PanicLoop \/ InertLoop \/ WaitForReset

\* The program on a CPU that keeps executing, with a watchdog whose clock
\* keeps running and whose reset is taken when its counter has run out.
SpecFair ==
    /\ Init /\ [][Next]_vars
    /\ WF_vars(CpuLoop) /\ WF_vars(Tick) /\ WF_vars(WatchdogReset)

(* ------------------------------ properties ---------------------------- *)

\* Statements of main after the bound update (main.rs:145 onwards).
PastUpdate == {"set_phase", "leds", "probe", "arm", "unlock", "erase",
               "feed_min", "delay", "write", "after", "blue", "wait_reset"}

\* Statements of the timed sequence, from arming to the program call.
TimedPcs == {"arm", "unlock", "erase", "feed_min", "delay", "write"}

\* This boot has started the timed sequence.
Attempted ==
    calls.armed \/ calls.unlock > 0 \/ calls.erase > 0 \/ calls.write > 0

\* The page count of the bank mode.
PageCount == IF dbank THEN DUAL_BANK_PAGES ELSE SINGLE_BANK_PAGES

\* C1: after unlock() returned Ok, any driver calls and the release of the
\* capability, the LOCK bit is set again.
C1_LockedAfterRelease == last.op = "drop" => flash.lock

\* C2: phase is before-write from before the watchdog is armed and before
\* any flash step, until the program call has returned Ok; it is after-write
\* only after that call returned Ok; so a boot that follows a reset taken
\* before the call returned finds before-write, and a boot that finds
\* after-write follows a boot whose program call completed.
C2_PhaseOrder ==
    /\ Attempted =>
          \/ bkpr[3] = STATE_BEFORE_WRITE
          \/ bkpr[3] = STATE_AFTER_WRITE /\ calls.write_ok
    /\ (Attempted /\ ~calls.write_ok) => bkpr[3] = STATE_BEFORE_WRITE
    /\ (pc = "boot" /\ boots > 0 /\ bkpr[3] = STATE_AFTER_WRITE) => prev
    /\ (pc = "boot" /\ boots > 0 /\ ~prev) => bkpr[3] = STATE_BEFORE_WRITE

C2_Witness ==
    pc = "boot" /\ boots > 0 /\ bkpr[3] = STATE_AFTER_WRITE /\ prev

\* C3: whenever a boot begins with the magic value in slot 0, however the
\* previous boot was cut short by a reset, slot 1 < slot 2.
C3_BoundsOrderedAtBoot ==
    (pc = "boot" /\ bkpr[0] = MAGIC_VALUE) => bkpr[1] < bkpr[2]

\* C4: in a boot that starts with magic set, phase before-write or
\* after-write and an interval of at least the minimum width, the bound
\* update leaves old_lo <= new_lo < new_hi <= old_hi and a strictly
\* narrower interval.
C4_UpdateShrinks ==
    (/\ pc \in PastUpdate
     /\ start[0] = MAGIC_VALUE
     /\ start[3] \in {STATE_BEFORE_WRITE, STATE_AFTER_WRITE}
     /\ start[2] - start[1] >= MIN_INTERVAL)
    => /\ start[1] <= bkpr[1]
       /\ bkpr[1] < bkpr[2]
       /\ bkpr[2] <= start[2]
       /\ bkpr[2] - bkpr[1] < start[2] - start[1]
       /\ <<loc.bottom, loc.top>> = <<bkpr[1], bkpr[2]>>

C4_Witness ==
    /\ pc = "probe" /\ start[0] = MAGIC_VALUE /\ start[3] = STATE_AFTER_WRITE
    /\ bkpr[1] > start[1] /\ bkpr[2] = start[2]

ScenarioB ==
    /\ start[0] = MAGIC_VALUE /\ start[1] = 100 /\ start[2] = 1000000
    /\ start[3] = STATE_BEFORE_WRITE

\* C6 as stated: such a boot persists bound_hi = 550_000.
C6_TopIs550000 == (ScenarioB /\ pc \in PastUpdate) => bkpr[2] = 550000

\* C6, amended: such a boot persists bound_hi = 500_050, the middle of the
\* previous attempt's bounds, leaves bound_lo = 100, recomputes middle
\* (250_075) from the new bounds, and has phase = before-write again before
\* the new attempt.
C6_TopIs500050 ==
    (ScenarioB /\ pc \in PastUpdate)
    => /\ bkpr[2] = 500050
       /\ bkpr[1] = 100
       /\ loc.middle = 250075
       /\ pc \in TimedPcs \cup {"leds", "probe"} => bkpr[3] = STATE_BEFORE_WRITE

C6_Witness == ScenarioB /\ pc = "write" /\ bkpr[2] = 500050

\* C7: when the bound update reads the slots, slots 1, 2, 3 are as the
\* previous boot left them if slot 0 held the magic value at boot, and are
\* 100, 1_000_000, uninitialized (0) if it did not.
C7_ColdInitOnlyOnMismatch ==
    pc = "read_bounds"
    => IF start[0] = MAGIC_VALUE
       THEN <<bkpr[1], bkpr[2], bkpr[3]>> = <<start[1], start[2], start[3]>>
       ELSE <<bkpr[1], bkpr[2], bkpr[3]>> = <<100, 1000000, 0>>

C7_Witness ==
    /\ pc = "read_bounds" /\ start[0] = MAGIC_VALUE /\ boots > 0
    /\ bkpr[2] # 1000000 /\ bkpr[3] # 0

\* The first boot after power-on: every slot zero.
FirstBoot == boots = 0 /\ start = PowerOn

\* C8: in the first boot after power-on the bounds become 100 and 1_000_000
\* and are not narrowed (the delay is their middle), phase is before-write
\* throughout the timed sequence, at most one erase_page and one
\* write_dwords call are made, exactly one of each once the program call
\* has returned, and the reset counter goes from 0 to 1.
C8_FirstBoot ==
    FirstBoot
    => /\ pc \in PastUpdate =>
             /\ <<bkpr[1], bkpr[2]>> = <<100, 1000000>>
             /\ <<loc.bottom, loc.top, loc.middle>> = <<100, 1000000, 500050>>
             /\ bkpr[4] = 1
       /\ pc \in {"boot", "init0", "init1", "init2", "init3", "count"} => bkpr[4] = 0
       /\ pc \in TimedPcs => bkpr[3] = STATE_BEFORE_WRITE
       /\ calls.erase <= 1 /\ calls.write <= 1
       /\ pc \in {"feed_min", "delay", "write"} => calls.erase = 1 /\ calls.write = 0
       /\ pc \in {"after", "blue", "wait_reset"} =>
             calls.erase = 1 /\ calls.write = 1 /\ calls.write_ok

C8_Witness ==
    FirstBoot /\ pc = "wait_reset" /\ calls.erase = 1 /\ calls.write = 1 /\ bkpr[4] = 1

C10_Case ==
    /\ pc \in {"success_loop", "inert_loop"}
    /\ eccr.eccd \/ (~dbank /\ eccr.eccd2)
    /\ eccr.addr = 8192

\* C10: in that case the handler is in its success loop with the green LED
\* on, the watchdog counter never runs out, no reset follows and the backup
\* registers never change again.
C10_IntendedAtLowerEdge ==
    /\ [](C10_Case => pc = "success_loop" /\ led.green /\ (wdg.on => wdg.cnt > 0))
    /\ [][C10_Case => (pc' = "success_loop" /\ bkpr' = bkpr /\ boots' = boots)]_vars

C10_Witness ==
    C10_Case /\ pc = "success_loop" /\ wdg.on /\ wdg.cnt < WdgReload /\ boots > 0

\* An exception handler has run with no ECC-detected flag in FLASH_ECCR and
\* has reached its final loop.
C11_Case ==
    pc \in {"success_loop", "inert_loop"} /\ ~eccr.eccd /\ ~eccr.eccd2

\* C11: in that case the handler is in the inert loop with the red LED on
\* and the green LED off; it stays in that loop, in which the watchdog
\* counter is never reloaded, until a reset; and when the watchdog is
\* running, the reset comes (within the boots followed).
C11_UnintendedWithoutEcc ==
    /\ [](C11_Case => pc = "inert_loop" /\ led.red /\ ~led.green)
    /\ [][C11_Case =>
             \/ pc' = "inert_loop" /\ wdg'.on = wdg.on /\ wdg'.cnt <= wdg.cnt
                                   /\ led' = led /\ bkpr' = bkpr
             \/ pc' = "boot" /\ boots' = boots + 1 /\ wdg.on /\ wdg.cnt = 0]_vars
    /\ \A b \in 0..(MaxBoots - 1) :
          (C11_Case /\ wdg.on /\ boots = b) ~> (pc = "boot" /\ boots = b + 1)

C11_Witness ==
    /\ C11_Case /\ pc = "inert_loop" /\ led.red /\ led.blue
    /\ wdg.on /\ wdg.cnt = 0 /\ boots < MaxBoots

\* The timed sequence of this boot ended with a driver call (unlock,
\* erase_page or write_dwords) returning an error.
DriverFailed == calls.armed /\ last.res \in Error

\* C12: the reset that ends a boot whose timed sequence met a driver error
\* hands the next boot the magic value in slot 0, so that boot goes on from
\* the bounds and phase the failing boot left.
C12_SearchStateKept ==
    [][(DriverFailed /\ pc = "panic_loop" /\ pc' = "boot") =>
           bkpr'[0] = MAGIC_VALUE]_vars

\* C13: wait() returns Busy when the busy bit is still set at the end of
\* its polling; otherwise it returns Illegal when any of the seven sticky
\* programming error flags is set, and Ok only when all of them are clear.
C13_WaitReportsEveryFlag ==
    (last.op = "wait" /\ last.res # "Busy")
    => /\ last.res \in {"Ok", "Illegal"}
       /\ last.res = "Illegal" <=> flash.errs \cap ErrFlags # {}

\* The last driver call wrote what to register reg.
Wrote(reg, what) ==
    \E i \in 1..Len(last.log) : last.log[i].reg = reg /\ last.log[i].what = what

\* C14: when write_dwords has set the PG bit, the PG bit is clear when it
\* returns, whether it returns Ok or the error of a wait.
C14_PgClearOnReturn ==
    (last.op = "write_dwords" /\ Wrote("CR", "pg=1")) => ~flash.pg

\* C15: a call of erase_page or write_dwords made while the controller is
\* idle and a sticky programming error flag is set clears the flags before
\* anything else can end it: it never returns Illegal having written no
\* register.
C15_StaleFlagDoesNotBlock ==
    [][(/\ pc = "driver" /\ cap
        /\ flash.busy = 0 /\ flash.errs \cap ErrFlags # {}
        /\ last'.op \in {"erase_page", "write_dwords"})
       => /\ ~(last'.res = "Illegal" /\ last'.log = <<>>)
          /\ last'.log # <<>> /\ last'.log[1] = W("SR", "clear_flags", 0, 0)]_vars

\* An exception taken before the watchdog was armed has been classified:
\* FLASH_ECCR holds an ECC-detected flag of the bank mode's layout and an
\* address in the target window.
C16_Case ==
    /\ pc \in {"success_loop", "inert_loop"}
    /\ ~calls.armed
    /\ eccr.eccd \/ (~dbank /\ eccr.eccd2)
    /\ eccr.addr >= APPROXIMATE_ADDRESS_TO_CORRUPT
    /\ eccr.addr < APPROXIMATE_ADDRESS_TO_CORRUPT + CORRUPT_RANGE

\* C16: at the probe the watchdog is not armed and the flash is locked with
\* no driver call made in this boot; and once a fault of the probe has been
\* classified as intended, the controller is in the success loop and stays
\* there: no reset, no watchdog arm, no unlock, erase or program call, no
\* change of the flash controller or of the backup registers.
C16_ProbeFirst ==
    /\ [](pc = "probe" => ~Attempted /\ ~wdg.on /\ flash.lock /\ ~cap
                          /\ last = NoCall)
    /\ [](C16_Case => pc = "success_loop" /\ ~wdg.on /\ flash.lock /\ ~Attempted)
    /\ [][C16_Case => /\ pc' = "success_loop"
                      /\ <<wdg, calls, flash, cap, last, bkpr, boots>>'
                            = <<wdg, calls, flash, cap, last, bkpr, boots>>]_vars

\* The fault was taken in the probe: only its reads latch an address past
\* the first byte of the window.
C16_Witness ==
    /\ C16_Case /\ pc = "success_loop" /\ led.green /\ stepped
    /\ eccr.addr = APPROXIMATE_ADDRESS_TO_CORRUPT + CORRUPT_RANGE - 1

\* C17: address_to_page_number(a) is a div 0x1000 in dual-bank mode and
\* a div 0x2000 in single-bank mode, by the bank mode at the query; so for
\* every valid page p of the mode the first address of p gives p back.
C17_PageNumberIsQuotient ==
    last.op = "address_to_page_number"
    => LET size == IF dbank THEN 4096 ELSE 8192
       IN /\ last.res = last.arg \div size
          /\ last.res * size <= last.arg /\ last.arg < (last.res + 1) * size
          /\ \A p \in 0..(PageCount - 1) : last.arg = p * size => last.res = p

C17_Witness ==
    /\ last.op = "address_to_page_number" /\ dbank
    /\ last.arg = 511 * 4096 /\ last.res = 511

\* An exception handler has classified the fault and reached its final loop.
Classified == pc \in {"success_loop", "inert_loop"}

\* C18: the handler declares the intended outcome (green LED, success
\* loop) exactly when FLASH_ECCR holds ECCD, or in single-bank mode ECCD or
\* ECCD2, and 0x2000 <= ADDR_ECC < 0x2008; every other fault ends in the
\* inert loop with the red LED on and the green LED off.
C18_IntendedIff ==
    Classified
    => LET ecc == IF dbank THEN eccr.eccd ELSE (eccr.eccd \/ eccr.eccd2)
           inside == 8192 <= eccr.addr /\ eccr.addr < 8192 + 8
       IN /\ pc = "success_loop" <=> (ecc /\ inside)
          /\ led.green <=> (ecc /\ inside)
          /\ pc = "inert_loop" => led.red
          /\ (dbank /\ ~eccr.eccd) => pc = "inert_loop"
          /\ eccr.addr \in {8191, 8200} => pc = "inert_loop"

\* ECCD2 alone in dual-bank mode, with an address inside the window.
C18_Witness ==
    /\ pc = "inert_loop" /\ dbank /\ eccr.eccd2 /\ ~eccr.eccd
    /\ eccr.addr = 8192 /\ led.red /\ ~led.green

\* An ECC error one byte below the window, and one at target + width.
C18_WitnessBelow == pc = "inert_loop" /\ eccr.eccd /\ eccr.addr = 8191

C18_WitnessAbove == pc = "inert_loop" /\ eccr.eccd /\ eccr.addr = 8200

\* The writes to flash memory among the register writes of a call.
MemWrites(log) == SelectSeq(log, LAMBDA w : w.reg = "MEM")

\* The hardware outcome of a programmed word for which the wait that
\* follows it reports an error: still busy after the polls of wait and its
\* last status read, or a flag raised that Flash::status reads.
WaitFails(hw) ==
    hw.lat > WaitPolls \/ hw.raise \cap {"pgaerr", "progerr", "wrperr"} # {}

\* C19: for every array and every behaviour of the hardware, a
\* write_dwords call that has got past its first wait writes, for each
\* word in turn, the low half at a and the high half at a + 4, a advancing
\* by 8 per word, up to and including the first word whose wait fails and
\* no further; it returns that wait's error (Busy before Illegal), and Ok
\* when no wait fails.
C19_WordByWord ==
    (pc = "driver" /\ cap)
    => \A array \in HarnessArrays : \A hws \in [1..Len(array) -> HwOutcomes] :
         LET r == write_dwords(flash, 8192, array, hws)
             mem == MemWrites(r.log)
             bad == {k \in 1..Len(array) : WaitFails(hws[k])}
             n == IF bad = {} THEN Len(array)
                  ELSE CHOOSE k \in bad : \A j \in bad : k <= j
         IN r.log # <<>>
            => /\ Len(mem) = 2 * n
               /\ \A i \in 1..n :
                    /\ mem[2 * i - 1] = W("MEM", "lo", 8192 + 8 * (i - 1), array[i][2])
                    /\ mem[2 * i] = W("MEM", "hi", 8192 + 8 * (i - 1) + 4, array[i][1])
               /\ r.res = IF bad = {} THEN "Ok"
                          ELSE IF hws[n].lat > WaitPolls THEN "Busy" ELSE "Illegal"

\* A call with two words that returned the error of the wait after the
\* first, having written the two halves of the first word only.
C19_Witness ==
    /\ last.op = "write_dwords" /\ last.arg = 2 /\ last.res = "Illegal"
    /\ Len(MemWrites(last.log)) = 2
    /\ MemWrites(last.log)[1] = W("MEM", "lo", 8192, 2)
    /\ MemWrites(last.log)[2] = W("MEM", "hi", 8196, 1)

\* The last driver call was erase_page of a page of the bank mode, and it
\* got past its first wait to the range check.
C20_Case ==
    last.op = "erase_page" /\ last.arg < PageCount /\ last.log # <<>>

\* C20: such a call makes one control-register write that sets PER, the
\* bank-select bit and the page-number field, then one that sets STRT; in
\* dual-bank mode the bank bit is (p div 256 = 1) and the field p mod 256,
\* in single-bank mode the bank bit is clear and the field is p; and PER is
\* clear when the call returns, whether the completion wait returned Ok,
\* Busy or Illegal.
C20_EraseSetup ==
    C20_Case
    => LET p == last.arg
           bank == IF dbank /\ p \div 256 = 1 THEN 1 ELSE 0
           field == IF dbank THEN p % 256 ELSE p
       IN /\ last.log = <<W("SR", "clear_flags", 0, 0),
                          W("CR", "per=1,bker,pnb", bank, field),
                          W("CR", "start=1", 0, 0),
                          W("CR", "per=0", 0, 0)>>
          /\ bank * 256 + field = p
          /\ flash.bker = (bank = 1) /\ flash.pnb = field
          /\ ~flash.per
          /\ last.res \in {"Ok", "Busy", "Illegal"}

\* Page 511 in dual-bank mode, the completion wait having timed out.
C20_Witness ==
    /\ C20_Case /\ dbank /\ last.arg = 511 /\ last.res = "Busy"
    /\ flash.bker /\ flash.pnb = 255 /\ ~flash.per

\* C21: once the panic handler has reached its loop, slot 0 is cleared,
\* every turn of the loop feeds a running watchdog (its counter is back at
\* the reload value), and so the controller stays in the loop and no
\* watchdog reset follows.
C21_PanicLoopHoldsOffReset ==
    /\ [](pc = "panic_loop" => bkpr[0] = <<0, 0>> /\ led.red)
    /\ [][(pc = "panic_loop" /\ pc' = "panic_loop" /\ stepped' /\ wdg.on)
            => wdg'.cnt = WdgReload]_vars
    /\ [][pc = "panic_loop" => (pc' = "panic_loop" /\ boots' = boots)]_vars

\* The page that contains the target address 0x2000: page 2 of 0x1000
\* bytes in dual-bank mode, page 1 of 0x2000 bytes in single-bank mode.
TargetPage == IF dbank THEN 2 ELSE 1

\* The first address of the target page, and the first address past it.
TargetPageFirst == TargetPage * (IF dbank THEN 4096 ELSE 8192)

TargetPageEnd == (TargetPage + 1) * (IF dbank THEN 4096 ELSE 8192)

\* C22: in both bank modes the page the controller passes to erase_page is
\* address_to_page_number(target), the page that contains the target and
\* not page 0, and the erase it configures selects that page in the first
\* bank; every 32-bit write of the timed write_dwords call lies in
\* target .. target + 8 * (words begun), inside that erased page.
C22_MutationsInTargetPage ==
    /\ calls.erase > 0 => loc.page_number = TargetPage
    /\ last.op = "erase_page"
       => /\ last.arg = TargetPage /\ last.arg # 0
          /\ last.arg = address_to_page_number(dbank, APPROXIMATE_ADDRESS_TO_CORRUPT)
          /\ TargetPageFirst <= 8192 /\ 8192 < TargetPageEnd
          /\ \A i \in 1..Len(last.log) :
               last.log[i].what = "per=1,bker,pnb"
               => last.log[i].addr = 0 /\ last.log[i].val = TargetPage
    /\ last.op = "write_dwords"
       => LET mem == MemWrites(last.log)
          IN /\ flash.pnb = TargetPage /\ ~flash.bker
             /\ Len(mem) <= 2 * Len(WriteArray)
             /\ \A i \in 1..Len(mem) :
                  /\ 8192 <= mem[i].addr
                  /\ mem[i].addr + 4 <= 8192 + 8 * ((Len(mem) + 1) \div 2)
                  /\ TargetPageFirst <= mem[i].addr
                  /\ mem[i].addr + 4 <= TargetPageEnd

\* The timed write has returned Ok in dual-bank mode: page 2 erased, both
\* words programmed.
C22_Witness ==
    /\ pc = "after" /\ dbank /\ last.op = "write_dwords" /\ last.res = "Ok"
    /\ Len(MemWrites(last.log)) = 4 /\ MemWrites(last.log)[4].addr = 8204
    /\ flash.pnb = 2 /\ calls.erase = 1

====
